---- MODULE Spec2Model ----
(***************************************************************************)
(* Flask-Blog: the data-access layer BlogDatabase (src/blog_db.py), a      *)
(* SQLite store of three tables (topic, author, entry) with foreign-key    *)
(* enforcement switched on, and the operations that insert, read and       *)
(* delete rows.                                                            *)
(*                                                                         *)
(* Spec      one session; every action is one whole call of a method.      *)
(* SpecStmt  two sessions on the same store; every action is one committed *)
(*           SQL statement (or one read) of a method.                      *)
(***************************************************************************)
EXTENDS Integers, Sequences, FiniteSets, TLC

\* ------------------------------------------------------------------ bounds

\* Largest author or topic rowid, and largest entry rowid, under Spec (a step
\* that would go beyond is not taken).
MaxId == 2

MaxEntryId == 2

\* The same under SpecStmt.
StmtMaxId == 1

StmtMaxEntryId == 1

\* The same under SpecWeb.
WebMaxId == 2

WebMaxEntryId == 1

\* Author names, topic names, titles and contents the callers pass.
AuthorNames == {"Karen", "Sam"}

TopicNames == {"Thoughts", "Stuff"}

Titles == {"Hi"}

Contents == {":)"}

Sessions == {1, 2}

\* ------------------------------------------------------------------- state

VARIABLES
    topic,      \* rows of table topic:  [topic_id, topic]
    author,     \* rows of table author: [author_id, name]
    entry,      \* rows of table entry:  [entry_id, title, content, author_id, topic_id]
    pc,         \* per session: the statement its current call is at ("idle": none)
    frame,      \* per session: the arguments and locals of its current call
    last,       \* the call that completed most recently: [op, args, ret, exc]
    assigned,   \* history: per table, every rowid ever given to a new row
    log         \* history: insert_entry calls completed while no delete was ever
                \* called (inserted), and whether a delete was ever called (deleted)

vars == <<topic, author, entry, pc, frame, last, assigned, log>>

\* Python's None (row_to_dict on no row; the return value of a delete).
None == [absent |-> TRUE]

\* No exception was raised.
NoExc == "none"

Max(S) == CHOOSE x \in S : \A y \in S : y <= x

\* The store as one value.
Store == [topic |-> topic, author |-> author, entry |-> entry]

TopicIds(db) == {r.topic_id : r \in db.topic}

AuthorIds(db) == {r.author_id : r \in db.author}

EntryIds(db) == {r.entry_id : r \in db.entry}

\* Mutant of NextRowid: rowids handed out by counting the rows.
NextRowid_counting(ids) == Cardinality(ids) + 1

\* INTEGER PRIMARY KEY without AUTOINCREMENT: a new row's rowid is one more
\* than the largest rowid now in the table, 1 in an empty table.
NextRowid(ids) == IF ids = {} THEN 1 ELSE Max(ids) + 1

\* ---------------------------------------------------------------- topic

\* SELECT topic_id, topic FROM topic WHERE topic = ?  ; row_to_dict
get_topic_by_name(db, topic_name) ==
    IF \E r \in db.topic : r.topic = topic_name
    THEN CHOOSE r \in db.topic : r.topic = topic_name
    ELSE None

\* SELECT topic_id, topic FROM topic WHERE topic_id = ?  ; row_to_dict
get_topic_by_id(db, topic_id) ==
    IF \E r \in db.topic : r.topic_id = topic_id
    THEN CHOOSE r \in db.topic : r.topic_id = topic_id
    ELSE None

\* Mutant of InsertOrIgnoreTopic: a plain INSERT into a column that is not UNIQUE.
InsertTopicAlways(db, name) ==
    [db EXCEPT !.topic = @ \cup
        {[topic_id |-> NextRowid(TopicIds(db)), topic |-> name]}]

\* INSERT OR IGNORE INTO topic(topic) VALUES(?) ; commit.  The UNIQUE
\* constraint on topic makes the insert a no-op when the name is present.
InsertOrIgnoreTopic(db, name) ==
    IF \E r \in db.topic : r.topic = name
    THEN db
    ELSE [db EXCEPT !.topic = @ \cup
            {[topic_id |-> NextRowid(TopicIds(db)), topic |-> name]}]

insert_topic(db, name) ==
    LET d == InsertOrIgnoreTopic(db, name)
    IN  [db |-> d, ret |-> get_topic_by_name(d, name), exc |-> NoExc]

\* Mutant of delete_topic: foreign keys not enforced.
delete_topic_unenforced(db, topic_id) ==
    [db |-> [db EXCEPT !.topic = {r \in @ : r.topic_id # topic_id}],
     ret |-> None, exc |-> NoExc]

\* DELETE FROM topic WHERE topic_id = ? ; commit.  With PRAGMA foreign_keys = 1
\* and no ON DELETE action, deleting a row an entry references fails with
\* sqlite3.IntegrityError and changes nothing.
delete_topic(db, topic_id) ==
    IF /\ topic_id \in TopicIds(db)
       /\ \E e \in db.entry : e.topic_id = topic_id
    THEN [db |-> db, ret |-> None, exc |-> "IntegrityError"]
    ELSE [db |-> [db EXCEPT !.topic = {r \in @ : r.topic_id # topic_id}],
          ret |-> None, exc |-> NoExc]

\* ---------------------------------------------------------------- author

\* SELECT author_id, name FROM author WHERE name = ?  ; row_to_dict
get_author_by_name(db, name) ==
    IF \E r \in db.author : r.name = name
    THEN CHOOSE r \in db.author : r.name = name
    ELSE None

\* SELECT author_id, name FROM author WHERE author_id = ?  ; row_to_dict
get_author_by_id(db, author_id) ==
    IF \E r \in db.author : r.author_id = author_id
    THEN CHOOSE r \in db.author : r.author_id = author_id
    ELSE None

\* Mutant of InsertOrIgnoreAuthor: a plain INSERT into a column that is not UNIQUE.
InsertAuthorAlways(db, name) ==
    [db EXCEPT !.author = @ \cup
        {[author_id |-> NextRowid(AuthorIds(db)), name |-> name]}]

\* Mutant of InsertOrIgnoreAuthor: INSERT OR REPLACE, which gives a present
\* name a new row with a new rowid.
InsertOrReplaceAuthor(db, name) ==
    [db EXCEPT !.author = {r \in @ : r.name # name} \cup
        {[author_id |-> NextRowid(AuthorIds(db)), name |-> name]}]

\* INSERT OR IGNORE INTO author(name) VALUES(?) ; commit
InsertOrIgnoreAuthor(db, name) ==
    IF \E r \in db.author : r.name = name
    THEN db
    ELSE [db EXCEPT !.author = @ \cup
            {[author_id |-> NextRowid(AuthorIds(db)), name |-> name]}]

insert_author(db, name) ==
    LET d == InsertOrIgnoreAuthor(db, name)
    IN  [db |-> d, ret |-> get_author_by_name(d, name), exc |-> NoExc]

\* Mutant of delete_author: foreign keys not enforced.
delete_author_unenforced(db, author_id) ==
    [db |-> [db EXCEPT !.author = {r \in @ : r.author_id # author_id}],
     ret |-> None, exc |-> NoExc]

\* Mutant of delete_author: a delete that matched no row raises.
delete_author_strict(db, author_id) ==
    IF author_id \notin AuthorIds(db)
    THEN [db |-> db, ret |-> None, exc |-> "LookupError"]
    ELSE IF \E e \in db.entry : e.author_id = author_id
    THEN [db |-> db, ret |-> None, exc |-> "IntegrityError"]
    ELSE [db |-> [db EXCEPT !.author = {r \in @ : r.author_id # author_id}],
          ret |-> None, exc |-> NoExc]

\* DELETE FROM author WHERE author_id = ? ; commit (foreign keys enforced)
delete_author(db, author_id) ==
    IF /\ author_id \in AuthorIds(db)
       /\ \E e \in db.entry : e.author_id = author_id
    THEN [db |-> db, ret |-> None, exc |-> "IntegrityError"]
    ELSE [db |-> [db EXCEPT !.author = {r \in @ : r.author_id # author_id}],
          ret |-> None, exc |-> NoExc]

\* ---------------------------------------------------------------- entry

\* Mutant of JoinRow: the author and topic columns of the SELECT exchanged.
JoinRow_names_exchanged(e, a, t) ==
    [entry_id |-> e.entry_id, title |-> e.title, content |-> e.content,
     author |-> t.topic, author_id |-> a.author_id,
     topic |-> a.name, topic_id |-> t.topic_id]

\* One row of the join  FROM entry, author, topic WHERE author.author_id =
\* entry.author_id AND topic.topic_id = entry.topic_id
JoinRow(e, a, t) ==
    [entry_id |-> e.entry_id, title |-> e.title, content |-> e.content,
     author |-> a.name, author_id |-> a.author_id,
     topic |-> t.topic, topic_id |-> t.topic_id]

\* Mutant of JoinRows: the join without its predicate on topic.
JoinRows_no_topic_predicate(db) ==
    {JoinRow(e, a, t) : <<e, a, t>> \in
        {x \in db.entry \X db.author \X db.topic :
            x[2].author_id = x[1].author_id}}

JoinRows(db) ==
    {JoinRow(e, a, t) : <<e, a, t>> \in
        {x \in db.entry \X db.author \X db.topic :
            /\ x[2].author_id = x[1].author_id
            /\ x[3].topic_id = x[1].topic_id}}

\* get_entry_by_id: the join restricted to entry_id = ? ; row_to_dict
get_entry_by_id(db, entry_id) ==
    IF \E j \in JoinRows(db) : j.entry_id = entry_id
    THEN CHOOSE j \in JoinRows(db) : j.entry_id = entry_id
    ELSE None

\* The rows of the join as a list, in ascending entry_id (the scan order of
\* table entry, the outer loop of the join).
RECURSIVE InScanOrder(_)
InScanOrder(rows) ==
    IF rows = {} THEN <<>>
    ELSE LET first == CHOOSE r \in rows : \A q \in rows : r.entry_id <= q.entry_id
         IN  <<first>> \o InScanOrder(rows \ {first})

\* get_all_entries: every row of the join, as a list
get_all_entries(db) == InScanOrder(JoinRows(db))

\* Mutant of InsertEntryRow: an entry equal in all four fields is not inserted
\* again.
InsertEntryRow_dedup(db, title, content, author_id, topic_id) ==
    LET same == {r \in db.entry : /\ r.title = title /\ r.content = content
                                  /\ r.author_id = author_id /\ r.topic_id = topic_id}
    IN  IF author_id \notin AuthorIds(db) \/ topic_id \notin TopicIds(db)
        THEN [db |-> db, lastrowid |-> 0, exc |-> "IntegrityError"]
        ELSE IF same # {}
        THEN [db |-> db, lastrowid |-> (CHOOSE r \in same : TRUE).entry_id, exc |-> NoExc]
        ELSE LET id == NextRowid(EntryIds(db))
             IN  [db |-> [db EXCEPT !.entry = @ \cup
                            {[entry_id |-> id, title |-> title, content |-> content,
                              author_id |-> author_id, topic_id |-> topic_id]}],
                  lastrowid |-> id, exc |-> NoExc]

\* INSERT INTO entry(title, content, author_id, topic_id) VALUES(?, ?, ?, ?) ;
\* commit.  The foreign keys are checked: a parent row must exist for each.
\* lastrowid is the new row's rowid.
InsertEntryRow(db, title, content, author_id, topic_id) ==
    IF author_id \in AuthorIds(db) /\ topic_id \in TopicIds(db)
    THEN LET id == NextRowid(EntryIds(db))
         IN  [db |-> [db EXCEPT !.entry = @ \cup
                        {[entry_id |-> id, title |-> title, content |-> content,
                          author_id |-> author_id, topic_id |-> topic_id]}],
              lastrowid |-> id, exc |-> NoExc]
    ELSE [db |-> db, lastrowid |-> 0, exc |-> "IntegrityError"]

\* insert_entry as one call: get-or-create the author and the topic, insert
\* the entry row with their ids, read the new entry back.
insert_entry(db, title, content, a, tp) ==
    LET d1 == insert_author(db, a).db
        author_dict == get_author_by_name(d1, a)
    IN  IF author_dict = None
        THEN [db |-> d1, ret |-> None, exc |-> "TypeError"]
        ELSE
    LET d2 == insert_topic(d1, tp).db
        topic_dict == get_topic_by_name(d2, tp)
    IN  IF topic_dict = None
        THEN [db |-> d2, ret |-> None, exc |-> "TypeError"]
        ELSE
    LET ins == InsertEntryRow(d2, title, content,
                              author_dict.author_id, topic_dict.topic_id)
    IN  IF ins.exc # NoExc
        THEN [db |-> ins.db, ret |-> None, exc |-> ins.exc]
        ELSE [db |-> ins.db, ret |-> get_entry_by_id(ins.db, ins.lastrowid),
              exc |-> NoExc]

\* Mutant of delete_entry: the WHERE clause names the wrong column.
delete_entry_wrong_column(db, entry_id) ==
    [db |-> [db EXCEPT !.entry = {r \in @ : r.author_id # entry_id}],
     ret |-> None, exc |-> NoExc]

\* DELETE FROM entry WHERE entry_id = ? ; commit
delete_entry(db, entry_id) ==
    [db |-> [db EXCEPT !.entry = {r \in @ : r.entry_id # entry_id}],
     ret |-> None, exc |-> NoExc]

\* ------------------------------------------------------------ the calls

\* The bounds of the two specifications.
SpecLim == [id |-> MaxId, entry |-> MaxEntryId]

StmtLim == [id |-> StmtMaxId, entry |-> StmtMaxEntryId]

\* The store db is within the bounds lim.
WithinBounds(db, lim) ==
    /\ \A i \in TopicIds(db) \cup AuthorIds(db) : i <= lim.id
    /\ \A i \in EntryIds(db) : i <= lim.entry

DeleteOps == {"delete_topic", "delete_author", "delete_entry"}

\* The JSON API's DELETE handlers.
ApiDeleteOps == {"EntriesView.delete", "AuthorsView.delete", "TopicsView.delete"}

\* A committed statement's effect on the store, and the rowids it gave out.
StoreTo(db, lim) ==
    /\ WithinBounds(db, lim)
    /\ topic' = db.topic
    /\ author' = db.author
    /\ entry' = db.entry
    /\ assigned' = [topic  |-> assigned.topic \cup TopicIds(db),
                    author |-> assigned.author \cup AuthorIds(db),
                    entry  |-> assigned.entry \cup EntryIds(db)]

\* A call ends: it returns ret or raises exc.
Done(op, args, ret, exc) ==
    /\ last' = [op |-> op, args |-> args, ret |-> ret, exc |-> exc]
    /\ log' = IF op \in DeleteOps \cup ApiDeleteOps \/ log.deleted
              THEN [inserted |-> 0, deleted |-> TRUE]
              ELSE [inserted |-> log.inserted + (IF op = "insert_entry" THEN 1 ELSE 0),
                    deleted |-> FALSE]

\* The ids a delete is called with: every id up to the largest in the table
\* (ids of rows and ids of no row) and the first id beyond it.
DeleteIds(ids) == 1..NextRowid(ids)

\* A whole call: its effect on the store and its result.
Commit(r, op, args, lim) ==
    /\ StoreTo(r.db, lim)
    /\ Done(op, args, r.ret, r.exc)

Call_insert_topic(s, lim) ==
    /\ pc[s] = "idle"
    /\ \E name \in TopicNames :
         Commit(insert_topic(Store, name), "insert_topic", <<name>>, lim)
    /\ UNCHANGED <<pc, frame>>

Call_insert_author(s, lim) ==
    /\ pc[s] = "idle"
    /\ \E name \in AuthorNames :
         Commit(insert_author(Store, name), "insert_author", <<name>>, lim)
    /\ UNCHANGED <<pc, frame>>

Call_insert_entry(s, lim) ==
    /\ pc[s] = "idle"
    /\ \E t \in Titles, c \in Contents, a \in AuthorNames, tp \in TopicNames :
         Commit(insert_entry(Store, t, c, a, tp), "insert_entry", <<t, c, a, tp>>, lim)
    /\ UNCHANGED <<pc, frame>>

Call_delete_topic(s, lim) ==
    /\ pc[s] = "idle"
    /\ \E id \in DeleteIds(TopicIds(Store)) :
         Commit(delete_topic(Store, id), "delete_topic", <<id>>, lim)
    /\ UNCHANGED <<pc, frame>>

Call_delete_author(s, lim) ==
    /\ pc[s] = "idle"
    /\ \E id \in DeleteIds(AuthorIds(Store)) :
         Commit(delete_author(Store, id), "delete_author", <<id>>, lim)
    /\ UNCHANGED <<pc, frame>>

Call_delete_entry(s, lim) ==
    /\ pc[s] = "idle"
    /\ \E id \in DeleteIds(EntryIds(Store)) :
         Commit(delete_entry(Store, id), "delete_entry", <<id>>, lim)
    /\ UNCHANGED <<pc, frame>>

\* No call is running in the session.
NoFrame == [op |-> "none"]

\* BlogDatabase.__init__ on a path with no file: the three tables, empty.
Init ==
    /\ topic = {}
    /\ author = {}
    /\ entry = {}
    /\ pc = [s \in Sessions |-> "idle"]
    /\ frame = [s \in Sessions |-> NoFrame]
    /\ last = [op |-> "init", args |-> <<>>, ret |-> None, exc |-> NoExc]
    /\ assigned = [topic |-> {}, author |-> {}, entry |-> {}]
    /\ log = [inserted |-> 0, deleted |-> FALSE]

\* One session (session 1), whole calls.
Next ==
    \/ Call_insert_topic(1, SpecLim)
    \/ Call_insert_author(1, SpecLim)
    \/ Call_insert_entry(1, SpecLim)
    \/ Call_delete_topic(1, SpecLim)
    \/ Call_delete_author(1, SpecLim)
    \/ Call_delete_entry(1, SpecLim)

Spec == Init /\ [][Next]_vars

\* ------------------------------------------- the calls, statement by statement

\* The session's call ends and its frame is dropped.
Return(s, op, args, ret, exc) ==
    /\ Done(op, args, ret, exc)
    /\ pc' = [pc EXCEPT ![s] = "idle"]
    /\ frame' = [frame EXCEPT ![s] = NoFrame]

\* The session's call goes on to its next statement.
Goto(s, label, f) ==
    /\ pc' = [pc EXCEPT ![s] = label]
    /\ frame' = [frame EXCEPT ![s] = f]
    /\ UNCHANGED <<last, log>>

\* insert_topic, first statement: INSERT OR IGNORE ; commit
Stmt_insert_topic(s) ==
    /\ pc[s] = "idle"
    /\ \E name \in TopicNames :
         /\ StoreTo(InsertOrIgnoreTopic(Store, name), StmtLim)
         /\ Goto(s, "insert_topic_fetch", [op |-> "insert_topic", name |-> name])

\* insert_topic, second statement: return self.get_topic_by_name(topic)
Stmt_insert_topic_fetch(s) ==
    /\ pc[s] = "insert_topic_fetch"
    /\ Return(s, "insert_topic", <<frame[s].name>>,
              get_topic_by_name(Store, frame[s].name), NoExc)
    /\ UNCHANGED <<topic, author, entry, assigned>>

\* insert_author, first statement: INSERT OR IGNORE ; commit
Stmt_insert_author(s) ==
    /\ pc[s] = "idle"
    /\ \E name \in AuthorNames :
         /\ StoreTo(InsertOrIgnoreAuthor(Store, name), StmtLim)
         /\ Goto(s, "insert_author_fetch", [op |-> "insert_author", name |-> name])

\* insert_author, second statement: return self.get_author_by_name(name)
Stmt_insert_author_fetch(s) ==
    /\ pc[s] = "insert_author_fetch"
    /\ Return(s, "insert_author", <<frame[s].name>>,
              get_author_by_name(Store, frame[s].name), NoExc)
    /\ UNCHANGED <<topic, author, entry, assigned>>

EntryArgs(f) == <<f.title, f.content, f.author, f.topic>>

\* insert_entry: self.insert_author(author), its INSERT OR IGNORE ; commit
\* (the record insert_author reads back is dropped).  author_new and topic_new
\* are history: whether this call's INSERT OR IGNOREs created a row.
Stmt_entry_author_insert(s) ==
    /\ pc[s] = "idle"
    /\ \E t \in Titles, c \in Contents, a \in AuthorNames, tp \in TopicNames :
         /\ StoreTo(InsertOrIgnoreAuthor(Store, a), StmtLim)
         /\ Goto(s, "entry_author_fetch",
                 [op |-> "insert_entry", title |-> t, content |-> c,
                  author |-> a, topic |-> tp, author_id |-> 0, topic_id |-> 0,
                  lastrowid |-> 0,
                  author_new |-> InsertOrIgnoreAuthor(Store, a).author # author,
                  topic_new |-> FALSE])

\* insert_entry: author_dict = self.get_author_by_name(author) ;
\* author_id = author_dict['author_id'], a TypeError when author_dict is None
Stmt_entry_author_fetch(s) ==
    /\ pc[s] = "entry_author_fetch"
    /\ LET author_dict == get_author_by_name(Store, frame[s].author)
       IN  IF author_dict = None
           THEN Return(s, "insert_entry", EntryArgs(frame[s]), None, "TypeError")
           ELSE Goto(s, "entry_topic_insert",
                     [frame[s] EXCEPT !.author_id = author_dict.author_id])
    /\ UNCHANGED <<topic, author, entry, assigned>>

\* insert_entry: self.insert_topic(topic), its INSERT OR IGNORE ; commit
Stmt_entry_topic_insert(s) ==
    /\ pc[s] = "entry_topic_insert"
    /\ StoreTo(InsertOrIgnoreTopic(Store, frame[s].topic), StmtLim)
    /\ Goto(s, "entry_topic_fetch",
            [frame[s] EXCEPT !.topic_new =
                InsertOrIgnoreTopic(Store, frame[s].topic).topic # topic])

\* insert_entry: topic_dict = self.get_topic_by_name(topic) ;
\* topic_id = topic_dict['topic_id'], a TypeError when topic_dict is None
Stmt_entry_topic_fetch(s) ==
    /\ pc[s] = "entry_topic_fetch"
    /\ LET topic_dict == get_topic_by_name(Store, frame[s].topic)
       IN  IF topic_dict = None
           THEN Return(s, "insert_entry", EntryArgs(frame[s]), None, "TypeError")
           ELSE Goto(s, "entry_insert",
                     [frame[s] EXCEPT !.topic_id = topic_dict.topic_id])
    /\ UNCHANGED <<topic, author, entry, assigned>>

\* insert_entry: INSERT INTO entry ; commit, an IntegrityError when a parent
\* row is gone
Stmt_entry_insert(s) ==
    /\ pc[s] = "entry_insert"
    /\ LET ins == InsertEntryRow(Store, frame[s].title, frame[s].content,
                                 frame[s].author_id, frame[s].topic_id)
       IN  IF ins.exc # NoExc
           THEN /\ Return(s, "insert_entry", EntryArgs(frame[s]), None, ins.exc)
                /\ UNCHANGED <<topic, author, entry, assigned>>
           ELSE /\ StoreTo(ins.db, StmtLim)
                /\ Goto(s, "entry_fetch", [frame[s] EXCEPT !.lastrowid = ins.lastrowid])

\* insert_entry: return self.get_entry_by_id(cur.lastrowid)
Stmt_entry_fetch(s) ==
    /\ pc[s] = "entry_fetch"
    /\ Return(s, "insert_entry", EntryArgs(frame[s]),
              get_entry_by_id(Store, frame[s].lastrowid), NoExc)
    /\ UNCHANGED <<topic, author, entry, assigned>>

\* Two sessions on one store.  Session 1 runs the calls of more than one
\* statement (the inserts), statement by statement; session 2 runs whole calls
\* of any method before, between and after them.
NextStmt ==
    \/ Stmt_insert_topic(1)
    \/ Stmt_insert_topic_fetch(1)
    \/ Stmt_insert_author(1)
    \/ Stmt_insert_author_fetch(1)
    \/ Stmt_entry_author_insert(1)
    \/ Stmt_entry_author_fetch(1)
    \/ Stmt_entry_topic_insert(1)
    \/ Stmt_entry_topic_fetch(1)
    \/ Stmt_entry_insert(1)
    \/ Stmt_entry_fetch(1)
    \/ Call_insert_topic(2, StmtLim)
    \/ Call_insert_author(2, StmtLim)
    \/ Call_insert_entry(2, StmtLim)
    \/ Call_delete_topic(2, StmtLim)
    \/ Call_delete_author(2, StmtLim)
    \/ Call_delete_entry(2, StmtLim)

SpecStmt == Init /\ [][NextStmt]_vars

\* ------------------------------------------------------- the web handlers

\* browse_blog.py, add_entry: max_length = 100
max_length == 100

\* The keys add_entry reads from request.form.
FormKeys == {"title", "content", "author", "topic"}

Ten == "0123456789"

\* A string of 100 characters, and one of 101.
Chars100 == Ten \o Ten \o Ten \o Ten \o Ten \o Ten \o Ten \o Ten \o Ten \o Ten

Chars101 == Chars100 \o "0"

\* What a well-formed post carries in each field.
WellFormed == [title |-> "Hi", content |-> ":)", author |-> "Karen", topic |-> "Thoughts"]

\* The values a form field is posted with: empty, short, of 100 and of 101
\* characters.
FieldValues(k) == {"", WellFormed[k], Chars100, Chars101}

\* request.form: the well-formed post, or that post with one key left out, or
\* with one field posted empty or long.
Forms ==
    UNION {{f \in [K -> UNION {FieldValues(k) : k \in FormKeys}] :
                /\ \A k \in K : f[k] \in FieldValues(k)
                /\ \E k \in FormKeys :
                     /\ FormKeys \ {k} \subseteq K
                     /\ \A j \in K \ {k} : f[j] = WellFormed[j]} :
           K \in SUBSET FormKeys}

\* add_entry: elif len(parameter) > max_length
FieldTooLong(parameter) == Len(parameter) > max_length

\* add_entry: the loop  for parameter in (title, content, author, topic),
\* from the i-th parameter on, with successful_add and notice_text as they are.
RECURSIVE ValidateFrom(_, _, _, _)
ValidateFrom(params, i, successful_add, notice_text) ==
    IF i > Len(params)
    THEN [successful_add |-> successful_add, notice_text |-> notice_text]
    ELSE IF params[i] = ""
    THEN [successful_add |-> "False", notice_text |-> "There's a missing parameter"]
    ELSE IF FieldTooLong(params[i])
    THEN [successful_add |-> "False",
          notice_text |-> "All inputs must be under 100 characters"]
    ELSE ValidateFrom(params, i + 1, "True", notice_text)

\* add_entry (GET or POST /new): what it does to the store and what it hands
\* to the template.
add_entry(db, form) ==
    IF ~(FormKeys \subseteq DOMAIN form)
    THEN [db |-> db, exc |-> NoExc,
          ret |-> [begin |-> FALSE, successful_add |-> "None", notice_text |-> "None"]]
    ELSE
    LET v == ValidateFrom(<<form["title"], form["content"], form["author"],
                            form["topic"]>>, 1, "None", "None")
    IN  IF v.successful_add = "True"
        THEN LET r == insert_entry(db, form["title"], form["content"],
                                   form["author"], form["topic"])
             IN  [db |-> r.db, exc |-> r.exc,
                  ret |-> [begin |-> TRUE, successful_add |-> "True",
                           notice_text |-> "Entry added successfully!"]]
        ELSE [db |-> db, exc |-> NoExc,
              ret |-> [begin |-> TRUE, successful_add |-> v.successful_add,
                       notice_text |-> v.notice_text]]

\* RequestError(status_code, error_message), answered by handle_invalid_usage.
RequestError(db, status_code, error_message) ==
    [db |-> db, exc |-> "RequestError",
     ret |-> [status |-> status_code, error |-> error_message]]

\* A handler's answer to a call of the store that raised nothing; an exception
\* of the store passes through the handler.
Answer(r, message) ==
    IF r.exc = NoExc
    THEN [db |-> r.db, exc |-> NoExc, ret |-> [message |-> message]]
    ELSE [db |-> r.db, exc |-> r.exc, ret |-> None]

\* EntriesView.delete
EntriesView_delete(db, entry_id) ==
    IF get_entry_by_id(db, entry_id) = None
    THEN RequestError(db, 404, "entry not found")
    ELSE Answer(delete_entry(db, entry_id), "entry deleted successfully")

\* AuthorsView.delete
AuthorsView_delete(db, author_id) ==
    IF get_author_by_id(db, author_id) = None
    THEN RequestError(db, 404, "author not found")
    ELSE Answer(delete_author(db, author_id), "author deleted successfully")

\* TopicsView.delete
TopicsView_delete(db, topic_id) ==
    IF get_topic_by_id(db, topic_id) = None
    THEN RequestError(db, 404, "topic not found")
    ELSE Answer(delete_topic(db, topic_id), "topic deleted successfully")

WebLim == [id |-> WebMaxId, entry |-> WebMaxEntryId]

Web_add_entry ==
    /\ \E form \in Forms :
         Commit(add_entry(Store, form), "add_entry", <<form>>, WebLim)
    /\ UNCHANGED <<pc, frame>>

Api_delete_entry ==
    /\ \E id \in DeleteIds(EntryIds(Store)) :
         Commit(EntriesView_delete(Store, id), "EntriesView.delete", <<id>>, WebLim)
    /\ UNCHANGED <<pc, frame>>

Api_delete_author ==
    /\ \E id \in DeleteIds(AuthorIds(Store)) :
         Commit(AuthorsView_delete(Store, id), "AuthorsView.delete", <<id>>, WebLim)
    /\ UNCHANGED <<pc, frame>>

Api_delete_topic ==
    /\ \E id \in DeleteIds(TopicIds(Store)) :
         Commit(TopicsView_delete(Store, id), "TopicsView.delete", <<id>>, WebLim)
    /\ UNCHANGED <<pc, frame>>

\* The browsing interface's add_entry and the JSON API's DELETE requests, one
\* request at a time, each on a connection of its own to the same store.
NextWeb ==
    \/ Web_add_entry
    \/ Api_delete_entry
    \/ Api_delete_author
    \/ Api_delete_topic

SpecWeb == Init /\ [][NextWeb]_vars

\* --------------------------------------------------------------- claims

\* The join rows get_all_entries returns, as a set.
AllEntries(db) == {get_all_entries(db)[i] : i \in 1..Len(get_all_entries(db))}

\* C1: every entry row's author_id is the id of an author row and its topic_id
\* is the id of a topic row, in every state, the states between the statements
\* of a running insert_entry included.
C1_ReferentialIntegrity ==
    \A e \in entry :
        /\ e.author_id \in AuthorIds(Store)
        /\ e.topic_id \in TopicIds(Store)

\* An insert_entry is between its statements, entries are stored, and a
\* delete of a referenced author has just been refused.
C1_Witness ==
    /\ \E s \in Sessions : pc[s] \in {"entry_author_fetch", "entry_topic_insert",
                                        "entry_topic_fetch", "entry_insert"}
    /\ last.op = "delete_author"
    /\ \E e \in entry : e.author_id = last.args[1]

\* C2 as stated: delete_author(a) (delete_topic(t)) of a row that an entry
\* still references raises nothing, and afterwards that entry is absent from
\* get_entry_by_id and from get_all_entries.
C2_DeleteReferencedHidesEntry ==
    /\ last.op = "delete_author" =>
         \A e \in entry : e.author_id = last.args[1] =>
            /\ last.exc = NoExc
            /\ get_entry_by_id(Store, e.entry_id) = None
            /\ \A j \in AllEntries(Store) : j.entry_id # e.entry_id
    /\ last.op = "delete_topic" =>
         \A e \in entry : e.topic_id = last.args[1] =>
            /\ last.exc = NoExc
            /\ get_entry_by_id(Store, e.entry_id) = None
            /\ \A j \in AllEntries(Store) : j.entry_id # e.entry_id

\* C2 amended: delete_author(a) (delete_topic(t)) of a row that an entry still
\* references raises sqlite3.IntegrityError, the author (topic) row stays, and
\* every entry that references it is still returned by get_entry_by_id and is
\* still in get_all_entries.
C2_DeleteReferencedIsRefused ==
    /\ last.op = "delete_author" =>
         \A e \in entry : e.author_id = last.args[1] =>
            /\ last.exc = "IntegrityError"
            /\ get_author_by_id(Store, last.args[1]) # None
            /\ get_entry_by_id(Store, e.entry_id) # None
            /\ get_entry_by_id(Store, e.entry_id) \in AllEntries(Store)
    /\ last.op = "delete_topic" =>
         \A e \in entry : e.topic_id = last.args[1] =>
            /\ last.exc = "IntegrityError"
            /\ get_topic_by_id(Store, last.args[1]) # None
            /\ get_entry_by_id(Store, e.entry_id) # None
            /\ get_entry_by_id(Store, e.entry_id) \in AllEntries(Store)

\* A delete_author of an author that an entry references has just completed.
C2_Witness ==
    /\ last.op = "delete_author"
    /\ \E e \in entry : e.author_id = last.args[1]

\* C3 as stated: for each kind X, after delete_X(id) has completed,
\* get_X_by_id(id) returns absent.
C3_DeleteThenGetAbsent ==
    /\ last.op = "delete_entry" => get_entry_by_id(Store, last.args[1]) = None
    /\ last.op = "delete_author" => get_author_by_id(Store, last.args[1]) = None
    /\ last.op = "delete_topic" => get_topic_by_id(Store, last.args[1]) = None

\* C3 amended: after delete_entry(id), get_entry_by_id(id) returns absent; after
\* delete_author(id) (delete_topic(id)), get_author_by_id(id) returns absent
\* exactly when the delete raised nothing, and the delete raises
\* (IntegrityError) exactly when an entry references the row.
C3_DeleteThenGetAbsentUnlessReferenced ==
    /\ last.op = "delete_entry" =>
         /\ last.exc = NoExc
         /\ get_entry_by_id(Store, last.args[1]) = None
    /\ last.op = "delete_author" =>
         /\ (get_author_by_id(Store, last.args[1]) = None) <=> (last.exc = NoExc)
         /\ (last.exc # NoExc) <=> (\E e \in entry : e.author_id = last.args[1])
    /\ last.op = "delete_topic" =>
         /\ (get_topic_by_id(Store, last.args[1]) = None) <=> (last.exc = NoExc)
         /\ (last.exc # NoExc) <=> (\E e \in entry : e.topic_id = last.args[1])

\* A delete_entry, while other entries remain, has just completed on an id
\* that had been given to a row.
C3_Witness ==
    /\ last.op = "delete_entry"
    /\ last.args[1] \in assigned.entry
    /\ entry # {}

\* C4 as stated: the id of a newly created row is greater than every id ever
\* assigned in its table, ids of deleted rows included.
C4_IdsNeverReused ==
    [][/\ \A r \in topic' \ topic : \A i \in assigned.topic : r.topic_id > i
       /\ \A r \in author' \ author : \A i \in assigned.author : r.author_id > i
       /\ \A r \in entry' \ entry : \A i \in assigned.entry : r.entry_id > i]_vars

\* C4 amended: the id of a newly created row is greater than the id of every
\* row that is in its table when it is created (the id of a deleted row is
\* given out again once no row with that id or a greater one is left).
C4_IdAboveCurrentRows ==
    [][/\ \A r \in topic' \ topic : \A q \in topic : r.topic_id > q.topic_id
       /\ \A r \in author' \ author : \A q \in author : r.author_id > q.author_id
       /\ \A r \in entry' \ entry : \A q \in entry : r.entry_id > q.entry_id]_vars

\* insert_entry has just created an entry whose id is below an id that was
\* given to an entry before.
C4_Witness ==
    /\ last.op = "insert_entry"
    /\ last.exc = NoExc
    /\ \E i \in assigned.entry : i > last.ret.entry_id

\* C5: after insert_author(name) (insert_topic(name)) has returned, calling it
\* again with the same name returns the same record, a record of that name,
\* raises nothing and leaves the author (topic) table as it is.
C5_GetOrCreateIdempotent ==
    /\ last.op = "insert_author" =>
         LET again == insert_author(Store, last.args[1])
         IN  /\ last.ret # None
             /\ last.ret.name = last.args[1]
             /\ again.ret = last.ret
             /\ again.exc = NoExc
             /\ again.db.author = author
    /\ last.op = "insert_topic" =>
         LET again == insert_topic(Store, last.args[1])
         IN  /\ last.ret # None
             /\ last.ret.topic = last.args[1]
             /\ again.ret = last.ret
             /\ again.exc = NoExc
             /\ again.db.topic = topic

\* insert_author has just returned a row that is not the newest one: the name
\* was already there.
C5_Witness ==
    /\ last.op = "insert_author"
    /\ last.ret # None
    /\ last.ret.author_id < Max(AuthorIds(Store))

\* C6: no two author rows have the same name and no two topic rows have the
\* same topic string.
C6_NamesUnique ==
    /\ \A a, b \in author : a.name = b.name => a = b
    /\ \A a, b \in topic : a.topic = b.topic => a = b

\* Two topics are stored and insert_topic has just been called with the name
\* of the older one.
C6_Witness ==
    /\ last.op = "insert_topic"
    /\ Cardinality(topic) = 2
    /\ \E r \in topic : r.topic = last.args[1] /\ r.topic_id < Max(TopicIds(Store))

\* C7: insert_entry(t, c, a, tp) raises nothing and returns a record with
\* title t, content c, author a and topic tp, and get_entry_by_id of its
\* entry_id then returns an equal record.
C7_InsertEntryRoundTrip ==
    last.op = "insert_entry" =>
        /\ last.exc = NoExc
        /\ last.ret # None
        /\ last.ret.title = last.args[1]
        /\ last.ret.content = last.args[2]
        /\ last.ret.author = last.args[3]
        /\ last.ret.topic = last.args[4]
        /\ get_entry_by_id(Store, last.ret.entry_id) = last.ret

\* insert_entry has just returned the second entry of a store with two authors
\* and two topics.
C7_Witness ==
    /\ last.op = "insert_entry"
    /\ Cardinality(entry) = 2
    /\ Cardinality(author) = 2
    /\ Cardinality(topic) = 2

C9_DeleteMissingIsNoOp ==
    [][/\ (last'.op = "delete_topic" /\ last'.args[1] \notin TopicIds(Store)) =>
            (last'.exc = NoExc /\ UNCHANGED <<topic, author, entry>>)
       /\ (last'.op = "delete_author" /\ last'.args[1] \notin AuthorIds(Store)) =>
            (last'.exc = NoExc /\ UNCHANGED <<topic, author, entry>>)
       /\ (last'.op = "delete_entry" /\ last'.args[1] \notin EntryIds(Store)) =>
            (last'.exc = NoExc /\ UNCHANGED <<topic, author, entry>>)]_vars

\* delete_topic has just been called with an id that no topic row ever had,
\* on a store that holds topics and entries.
C9_Witness ==
    /\ last.op = "delete_topic"
    /\ last.args[1] \notin assigned.topic
    /\ topic # {}
    /\ entry # {}

\* C10: every record get_entry_by_id or get_all_entries returns carries the
\* ids of an existing author row and an existing topic row and the names
\* stored in exactly those rows, and an entry row is returned by the reads if
\* and only if both of its references resolve.
C10_ReadsAreFaithfulJoin ==
    /\ \A id \in 1..NextRowid(EntryIds(Store)) :
         LET j == get_entry_by_id(Store, id)
         IN  j # None => j \in AllEntries(Store)
    /\ \A j \in AllEntries(Store) :
         /\ get_entry_by_id(Store, j.entry_id) = j
         /\ get_author_by_id(Store, j.author_id) = [author_id |-> j.author_id, name |-> j.author]
         /\ get_topic_by_id(Store, j.topic_id) = [topic_id |-> j.topic_id, topic |-> j.topic]
         /\ \E e \in entry :
              /\ e.entry_id = j.entry_id /\ e.title = j.title /\ e.content = j.content
              /\ e.author_id = j.author_id /\ e.topic_id = j.topic_id
    /\ \A e \in entry :
         (\E j \in AllEntries(Store) : j.entry_id = e.entry_id)
            <=> (e.author_id \in AuthorIds(Store) /\ e.topic_id \in TopicIds(Store))
    /\ Len(get_all_entries(Store)) = Cardinality(AllEntries(Store))

\* Two entries with different authors and different topics are stored and read.
C10_Witness ==
    /\ Len(get_all_entries(Store)) = 2
    /\ \E j, k \in AllEntries(Store) : j.author_id # k.author_id /\ j.topic_id # k.topic_id

C12_FreshIdsCountUp ==
    [][/\ ~log'.deleted =>
            /\ \A r \in topic' \ topic : r.topic_id = Cardinality(topic) + 1
            /\ \A r \in author' \ author : r.author_id = Cardinality(author) + 1
            /\ \A r \in entry' \ entry : r.entry_id = Cardinality(entry) + 1
            /\ {r.topic_id : r \in topic'} = 1..Cardinality(topic')
            /\ {r.author_id : r \in author'} = 1..Cardinality(author')
            /\ {r.entry_id : r \in entry'} = 1..Cardinality(entry')
            /\ (last'.op = "insert_author" /\ \E r \in author : r.name = last'.args[1]) =>
                    (author' = author /\ last'.ret \in author)
            /\ (last'.op = "insert_topic" /\ \E r \in topic : r.topic = last'.args[1]) =>
                    (topic' = topic /\ last'.ret \in topic)
       /\ last'.op = "delete_author" =>
            /\ author' \subseteq author
            /\ last'.exc = NoExc => author' = {r \in author : r.author_id # last'.args[1]}
       /\ last'.op = "delete_topic" =>
            /\ topic' \subseteq topic
            /\ last'.exc = NoExc => topic' = {r \in topic : r.topic_id # last'.args[1]}
       /\ last'.op = "delete_entry" =>
            entry' = {r \in entry : r.entry_id # last'.args[1]}]_vars

\* No delete has been called, two authors are stored, and insert_author has
\* just been called again with the first name and returned id 1.
C12_Witness ==
    /\ ~log.deleted
    /\ Cardinality(author) = 2
    /\ last.op = "insert_author"
    /\ last.ret # None
    /\ last.ret.author_id = 1

\* C13: add_entry calls insert_entry only when the form carries all four of
\* title, content, author and topic, each non-empty and shorter than 100
\* characters; otherwise the store is left as it was and successful_add is
\* not true.
C13_AddEntryValidates ==
    [][last'.op = "add_entry" =>
        LET form == last'.args[1]
            valid == /\ FormKeys \subseteq DOMAIN form
                     /\ \A k \in FormKeys : form[k] # "" /\ Len(form[k]) < 100
        IN  \/ valid
            \/ /\ UNCHANGED <<topic, author, entry>>
               /\ last'.ret.successful_add # "True"]_vars

\* C14: a DELETE on /entries/<id>, /authors/<id> or /topics/<id> answers
\* '<resource> deleted successfully' with the row gone when the row exists,
\* and otherwise ends in a 404 RequestError with the store unchanged.
C14_ApiDeleteDeletesOr404 ==
    [][last'.op \in ApiDeleteOps =>
        LET id == last'.args[1]
            op == last'.op
            before == CASE op = "EntriesView.delete" -> get_entry_by_id(Store, id)
                        [] op = "AuthorsView.delete" -> get_author_by_id(Store, id)
                        [] op = "TopicsView.delete" -> get_topic_by_id(Store, id)
            after == CASE op = "EntriesView.delete" -> get_entry_by_id(Store', id)
                       [] op = "AuthorsView.delete" -> get_author_by_id(Store', id)
                       [] op = "TopicsView.delete" -> get_topic_by_id(Store', id)
            resource == CASE op = "EntriesView.delete" -> "entry"
                          [] op = "AuthorsView.delete" -> "author"
                          [] op = "TopicsView.delete" -> "topic"
        IN  IF before = None
            THEN /\ last'.exc = "RequestError"
                 /\ last'.ret.status = 404
                 /\ UNCHANGED <<topic, author, entry>>
            ELSE /\ last'.exc = NoExc
                 /\ last'.ret = [message |-> resource \o " deleted successfully"]
                 /\ after = None]_vars

\* C15: with two sessions interleaving at committed statements, every
\* started insert_entry(t, c, a, tp) completes without failure and returns a
\* non-absent entry record with author = a and topic = tp, whatever the other
\* session deletes between its steps, and it never leaves behind an author or
\* topic row it created without having created the entry.
C15_InterleavedInsertEntrySucceeds ==
    [][/\ last'.op = "insert_entry" /\ last' # last =>
            /\ last'.exc = NoExc
            /\ last'.ret # None
            /\ last'.ret.author = last'.args[3]
            /\ last'.ret.topic = last'.args[4]
       /\ \A s \in Sessions :
            frame[s].op = "insert_entry" /\ pc'[s] = "idle" =>
                \/ pc[s] = "entry_fetch"
                \/ /\ frame[s].author_new =>
                        get_author_by_name(Store', frame[s].author) = None
                   /\ frame[s].topic_new =>
                        get_topic_by_name(Store', frame[s].topic) = None]_vars

====
